---- MODULE Spec2Model ----
(***************************************************************************)
(* Model of the WhatsApp phone synchronisation core: the phone normaliser  *)
(* (src-ts/phoneNormaliser.ts), the in-memory patient repository, the CSV  *)
(* sheet source and the reporter (infrastructure), and the reconciliation  *)
(* loop UpdateService.run.                                                 *)
(*                                                                         *)
(* Text is modelled as a sequence of one-character strings, so that        *)
(* trimming, stripping, prefix tests and slicing are computed character by *)
(* character as the code computes them.                                    *)
(***************************************************************************)
EXTENDS Integers, Sequences, FiniteSets, TLC

VARIABLES
    pc,        \* position of the scenario / of UpdateService.run
    format,    \* PhoneNormalizer.format
    nIn,       \* normaliser scenario: the pieces the raw input is spelled from
    nResult,   \* normaliser scenario: the NormalisedPhone returned
    patients,  \* InMemoryPatientRepository.patients (array of PatientResource)
    byNik,     \* InMemoryPatientRepository.byNik (nik -> index into patients)
    calls,     \* repository scenario: the applyPhone calls made so far
    rows,      \* data rows of the sheet, in file order (loadRows, before the sort)
    sorted,    \* the array loadRows returned (run's local `rows`)
    idx,       \* number of rows the loop of run has processed
    stats,     \* UpdateReporter.stats
    invalid,   \* UpdateReporter.invalid
    outputs,   \* the arguments of the writeOutputs calls made so far
    log,       \* per processed row: the reporter method reached, the keys
               \* handed to findByNik and the clock reading written
    initial,   \* the records the repository was constructed with
    held       \* reporter scenario: the statistics objects buildStats
               \* returned, each with the counters it showed when returned

vars == <<pc, format, nIn, nResult, patients, byNik, calls, rows, sorted, idx,
          stats, invalid, outputs, log, initial, held>>

(***************************************************************************)
(* Bounds of the model.                                                    *)
(***************************************************************************)
MaxBody == 14      \* longest digit body spelled after a prefix
MaxCalls == 3      \* applyPhone calls in the repository scenario
MaxRows == 3       \* data rows of a sheet in the sheet scenario
MaxRunRows == 2    \* data rows of a sheet in a run
MaxStamp == 2      \* distinct lastUpdated timestamps the clock can produce

(***************************************************************************)
(* Text helpers (String.prototype methods and the regular expressions).    *)
(***************************************************************************)
Digits == {"0", "1", "2", "3", "4", "5", "6", "7", "8", "9"}

\* JavaScript null / undefined for a text-valued field.
Null == <<"null">>

\* s.startsWith(p)
StartsWith(s, p) == Len(s) >= Len(p) /\ SubSeq(s, 1, Len(p)) = p

\* s.slice(n), 0 <= n
Slice(s, n) == SubSeq(s, n + 1, Len(s))

\* /^\d+$/.test(s)
AllDigits(s) == Len(s) > 0 /\ \A i \in 1..Len(s) : s[i] \in Digits

\* s.trim()
Trim(s) ==
    LET keep == {i \in 1..Len(s) : s[i] # " "}
    IN  IF keep = {} THEN <<>>
        ELSE LET lo == CHOOSE i \in keep : \A j \in keep : i <= j
                 hi == CHOOSE i \in keep : \A j \in keep : j <= i
             IN  SubSeq(s, lo, hi)

\* nonDigit = /[^+0-9]/g : the characters raw.replace(nonDigit, "") keeps
IsKept(c) == c = "+" \/ c \in Digits

\* raw.replace(nonDigit, "")
StripNonDigit(s) == SelectSeq(s, IsKept)

\* cleaned.replace(leadingPlusCollapse, "") with leadingPlusCollapse = /^\++/
StripLeadingPlus(s) ==
    LET rest == {i \in 1..Len(s) : s[i] # "+"}
    IN  IF rest = {} THEN <<>>
        ELSE Slice(s, (CHOOSE i \in rest : \A j \in rest : i <= j) - 1)

(***************************************************************************)
(* PhoneNormalizer                                                         *)
(***************************************************************************)
MIN_LEN == 10
MAX_LEN == 15

Formats == {"e164", "local0"}

\* build that fills an absent reason with the text "invalid"
buildReasonFilled(raw, canonical, valid, reason) ==
    [raw |-> raw, canonical |-> canonical, valid |-> valid,
     reason |-> IF reason = "none" THEN "invalid" ELSE reason]

\* build(raw, canonical, valid, reason); reason "none" is an absent reason
build(raw, canonical, valid, reason) ==
    [raw |-> raw, canonical |-> canonical, valid |-> valid, reason |-> reason]

\* is a digit
IsDigit(c) == c \in Digits

\* cleaning that also drops every + behind the leading position
CleanInnerPlus(raw) ==
    LET cleaned == StripNonDigit(raw)
    IN  IF StartsWith(cleaned, <<"+">>)
        THEN <<"+">> \o SelectSeq(cleaned, IsDigit)
        ELSE SelectSeq(cleaned, IsDigit)

\* lines 34-36: strip, then collapse leading pluses
Clean(raw) ==
    LET cleaned == StripNonDigit(raw)
    IN  IF StartsWith(cleaned, <<"+">>)
        THEN <<"+">> \o StripLeadingPlus(cleaned)
        ELSE cleaned

\* step 1 with the branch without prefix prepending + instead of +62
Step1NoCountryCode(cleaned) ==
    IF StartsWith(cleaned, <<"+", "6", "2">>) THEN
        LET digits == Slice(cleaned, 1)
        IN  IF AllDigits(digits)
            THEN [ok |-> TRUE, canonical |-> <<"+">> \o digits, reason |-> "none"]
            ELSE [ok |-> FALSE, canonical |-> Null, reason |-> "non_digit"]
    ELSE IF StartsWith(cleaned, <<"6", "2">>) THEN
        LET rest == Slice(cleaned, 2)
        IN  IF AllDigits(rest)
            THEN [ok |-> TRUE, canonical |-> <<"+", "6", "2">> \o rest, reason |-> "none"]
            ELSE [ok |-> FALSE, canonical |-> Null, reason |-> "non_digit"]
    ELSE IF StartsWith(cleaned, <<"0">>) THEN
        LET rest == Slice(cleaned, 1)
        IN  IF AllDigits(rest)
            THEN [ok |-> TRUE, canonical |-> <<"+", "6", "2">> \o rest, reason |-> "none"]
            ELSE [ok |-> FALSE, canonical |-> Null, reason |-> "non_digit"]
    ELSE IF ~AllDigits(cleaned) THEN
        [ok |-> FALSE, canonical |-> Null, reason |-> "non_digit"]
    ELSE IF Len(cleaned) >= 9 /\ Len(cleaned) <= 13 THEN
        [ok |-> TRUE, canonical |-> <<"+">> \o cleaned, reason |-> "none"]
    ELSE
        [ok |-> FALSE, canonical |-> Null, reason |-> "length"]

\* lines 38-57, step 1: the internal +62 canonical, or the early rejection
Step1(cleaned) ==
    IF StartsWith(cleaned, <<"+", "6", "2">>) THEN
        LET digits == Slice(cleaned, 1)
        IN  IF AllDigits(digits)
            THEN [ok |-> TRUE, canonical |-> <<"+">> \o digits, reason |-> "none"]
            ELSE [ok |-> FALSE, canonical |-> Null, reason |-> "non_digit"]
    ELSE IF StartsWith(cleaned, <<"6", "2">>) THEN
        LET rest == Slice(cleaned, 2)
        IN  IF AllDigits(rest)
            THEN [ok |-> TRUE, canonical |-> <<"+", "6", "2">> \o rest, reason |-> "none"]
            ELSE [ok |-> FALSE, canonical |-> Null, reason |-> "non_digit"]
    ELSE IF StartsWith(cleaned, <<"0">>) THEN
        LET rest == Slice(cleaned, 1)
        IN  IF AllDigits(rest)
            THEN [ok |-> TRUE, canonical |-> <<"+", "6", "2">> \o rest, reason |-> "none"]
            ELSE [ok |-> FALSE, canonical |-> Null, reason |-> "non_digit"]
    ELSE IF ~AllDigits(cleaned) THEN
        [ok |-> FALSE, canonical |-> Null, reason |-> "non_digit"]
    ELSE IF Len(cleaned) >= 9 /\ Len(cleaned) <= 13 THEN
        [ok |-> TRUE, canonical |-> <<"+", "6", "2">> \o cleaned, reason |-> "none"]
    ELSE
        [ok |-> FALSE, canonical |-> Null, reason |-> "length"]

\* line 64 keeping the country code behind the trunk 0
ProjectKeepCC(canonical, fmt) ==
    IF fmt = "local0" THEN <<"0">> \o Slice(canonical, 1) ELSE canonical

\* line 64, step 2: project into the requested output format
Project(canonical, fmt) ==
    IF fmt = "local0" THEN <<"0">> \o Slice(canonical, 3) ELSE canonical

\* the length test with both ends of the window excluded
OutOfRangeExclusive(digitsCount) ==
    digitsCount <= MIN_LEN \/ digitsCount >= MAX_LEN

\* line 61 with the upper limit forgotten
OutOfRangeNoMax(digitsCount) == digitsCount < MIN_LEN

\* line 61: digitsCount < MIN_LEN || digitsCount > MAX_LEN
OutOfRange(digitsCount) == digitsCount < MIN_LEN \/ digitsCount > MAX_LEN

\* PhoneNormalizer.normalise
normalise(rawInput, fmt) ==
    LET raw == Trim(rawInput)
    IN  IF raw = <<>> THEN build(raw, Null, FALSE, "empty")
        ELSE
        LET s1 == Step1(Clean(raw))
        IN  IF ~s1.ok THEN build(raw, Null, FALSE, s1.reason)
            ELSE IF ~StartsWith(s1.canonical, <<"+", "6", "2">>)
                 THEN build(raw, Null, FALSE, "bad_prefix")
            ELSE LET digitsCount == Len(s1.canonical) - 1
                 IN  IF OutOfRange(digitsCount)
                     THEN build(raw, Null, FALSE, "length")
                     ELSE build(raw, Project(s1.canonical, fmt), TRUE, "none")

(***************************************************************************)
(* Domain model (PatientResource, PatientTelecom, PatientMeta).            *)
(* A patient is a record with the fields id and identifier and the         *)
(* optional fields telecom and meta (absent from the record when the JSON  *)
(* has none).  A telecom entry always carries use and rank: NoUse and      *)
(* NoRank stand for an absent use / rank.  meta carries versionId (Null    *)
(* when absent) and lastUpdated (NoStamp when absent); a timestamp is a    *)
(* number of 1..MaxStamp, chosen by the clock at each update.              *)
(***************************************************************************)
NIK_SYSTEM == "https://fhir.kemkes.go.id/id/nik"

NoUse == "undefined"
NoRank == 0
NoStamp == 0

HasTelecom(p) == "telecom" \in DOMAIN p
HasMeta(p) == "meta" \in DOMAIN p

\* patient.telecom = t
SetTelecom(p, t) == ("telecom" :> t) @@ p

\* resource.meta = m
SetMeta(p, m) == ("meta" :> m) @@ p

\* the value of one decimal digit
DigitVal(c) ==
    CASE c = "0" -> 0 [] c = "1" -> 1 [] c = "2" -> 2 [] c = "3" -> 3
      [] c = "4" -> 4 [] c = "5" -> 5 [] c = "6" -> 6 [] c = "7" -> 7
      [] c = "8" -> 8 [] c = "9" -> 9

DigitChar(d) ==
    CASE d = 0 -> "0" [] d = 1 -> "1" [] d = 2 -> "2" [] d = 3 -> "3"
      [] d = 4 -> "4" [] d = 5 -> "5" [] d = 6 -> "6" [] d = 7 -> "7"
      [] d = 8 -> "8" [] d = 9 -> "9"

\* parseInt(s, 10) for a text of digits
RECURSIVE ParseInt(_)
ParseInt(s) ==
    IF s = <<>> THEN 0
    ELSE 10 * ParseInt(SubSeq(s, 1, Len(s) - 1)) + DigitVal(s[Len(s)])

\* n.toString() for n >= 0
RECURSIVE NumToString(_)
NumToString(n) ==
    IF n < 10 THEN <<DigitChar(n)>>
    ELSE NumToString(n \div 10) \o <<DigitChar(n % 10)>>

\* s.padStart(w, "0")
RECURSIVE PadStart(_, _)
PadStart(s, w) == IF Len(s) >= w THEN s ELSE PadStart(<<"0">> \o s, w)

\* updateMetaData that refreshes lastUpdated and leaves versionId as it is
updateMetaDataNoBump(resource, stamp) ==
    LET meta == IF HasMeta(resource) THEN resource.meta
                ELSE [versionId |-> Null, lastUpdated |-> NoStamp]
    IN  SetMeta(resource, [versionId |-> meta.versionId, lastUpdated |-> stamp])

\* updateMetaData(resource); stamp is what buildLastUpdatedTimestamp() returns
updateMetaData(resource, stamp) ==
    LET meta == IF HasMeta(resource) THEN resource.meta
                ELSE [versionId |-> Null, lastUpdated |-> NoStamp]
        vid == meta.versionId
        suffix == Slice(vid, 1)
        newVid ==
            IF vid # Null /\ StartsWith(vid, <<"v">>) /\ AllDigits(suffix)
            THEN <<"v">> \o PadStart(NumToString(ParseInt(suffix) + 1), 3)
            ELSE (IF vid = Null \/ vid = <<>> THEN <<"v", "0", "0", "0">> ELSE vid)
                 \o <<"-", "u", "p", "d", "a", "t", "e", "d">>
    IN  SetMeta(resource, [versionId |-> newVid, lastUpdated |-> stamp])

IsMobile(t) == t.system = "phone" /\ t.use = "mobile"

\* telecom.find(t => t.system === "phone" && t.use === "mobile"): index, 0 if none
FindMobile(telecom) ==
    LET hits == {i \in 1..Len(telecom) : IsMobile(telecom[i])}
    IN  IF hits = {} THEN 0 ELSE CHOOSE i \in hits : \A j \in hits : i <= j

\* applyPhone without the lookup of an existing entry: always pushes
applyPhoneAlwaysPush(patient, phone, stamp) ==
    LET telecom == IF HasTelecom(patient) THEN patient.telecom ELSE <<>>
        e == FindMobile(telecom)
    IN  IF e # 0 /\ telecom[e].value = phone
        THEN [patient |-> patient, changed |-> FALSE]
        ELSE [patient |-> updateMetaData(SetTelecom(patient,
                  Append(telecom, [system |-> "phone", use |-> "mobile",
                                   value |-> phone, rank |-> 1])), stamp),
              changed |-> TRUE]

\* applyPhone without the equality test: rewrites and bumps on every call
applyPhoneNoEqTest(patient, phone, stamp) ==
    LET telecom == IF HasTelecom(patient) THEN patient.telecom ELSE <<>>
        e == FindMobile(telecom)
        newTelecom ==
            IF e # 0
            THEN [telecom EXCEPT ![e].value = phone, ![e].rank = 1]
            ELSE Append(telecom, [system |-> "phone", use |-> "mobile",
                                  value |-> phone, rank |-> 1])
    IN  [patient |-> updateMetaData(SetTelecom(patient, newTelecom), stamp),
         changed |-> TRUE]

\* applyPhone that overwrites the value and leaves the rank as it is
applyPhoneKeepRank(patient, phone, stamp) ==
    LET telecom == IF HasTelecom(patient) THEN patient.telecom ELSE <<>>
        e == FindMobile(telecom)
    IN  IF e # 0 /\ telecom[e].value = phone
        THEN [patient |-> patient, changed |-> FALSE]
        ELSE
        LET newTelecom ==
                IF e # 0
                THEN [telecom EXCEPT ![e].value = phone]
                ELSE Append(telecom, [system |-> "phone", use |-> "mobile",
                                      value |-> phone, rank |-> 1])
        IN  [patient |-> updateMetaData(SetTelecom(patient, newTelecom), stamp),
             changed |-> TRUE]

\* applyPhone that puts a new entry at the front of the list (unshift)
applyPhoneUnshift(patient, phone, stamp) ==
    LET telecom == IF HasTelecom(patient) THEN patient.telecom ELSE <<>>
        e == FindMobile(telecom)
    IN  IF e # 0 /\ telecom[e].value = phone
        THEN [patient |-> patient, changed |-> FALSE]
        ELSE
        LET newTelecom ==
                IF e # 0
                THEN [telecom EXCEPT ![e].value = phone, ![e].rank = 1]
                ELSE <<[system |-> "phone", use |-> "mobile",
                        value |-> phone, rank |-> 1]>> \o telecom
        IN  [patient |-> updateMetaData(SetTelecom(patient, newTelecom), stamp),
             changed |-> TRUE]

\* InMemoryPatientRepository.applyPhone(patient, phone): the patient after
\* the call and the value returned
applyPhone(patient, phone, stamp) ==
    LET telecom == IF HasTelecom(patient) THEN patient.telecom ELSE <<>>
        e == FindMobile(telecom)
    IN  IF e # 0 /\ telecom[e].value = phone
        THEN [patient |-> patient, changed |-> FALSE]
        ELSE
        LET newTelecom ==
                IF e # 0
                THEN [telecom EXCEPT ![e].value = phone, ![e].rank = 1]
                ELSE Append(telecom, [system |-> "phone", use |-> "mobile",
                                      value |-> phone, rank |-> 1])
        IN  [patient |-> updateMetaData(SetTelecom(patient, newTelecom), stamp),
             changed |-> TRUE]

\* the NIK values of a patient, in identifier order
NiksOf(p) ==
    {p.identifier[k].value : k \in {j \in 1..Len(p.identifier) :
                                       p.identifier[j].system = NIK_SYSTEM}}

\* InMemoryPatientRepository constructor: byNik.set(ident.value, p) in array
\* order, so the last patient carrying a NIK owns it
BuildIndex(ps) ==
    LET keys == UNION {NiksOf(ps[i]) : i \in 1..Len(ps)}
    IN  [n \in keys |->
            CHOOSE i \in 1..Len(ps) :
                /\ n \in NiksOf(ps[i])
                /\ \A j \in 1..Len(ps) : n \in NiksOf(ps[j]) => j <= i]

\* findByNik that hands out some indexed record for an unknown key
findByNikFallback(index, nik) ==
    IF nik \in DOMAIN index THEN index[nik]
    ELSE index[CHOOSE k \in DOMAIN index : TRUE]

\* findByNik(nik): index into patients, 0 for undefined
findByNik(index, nik) == IF nik \in DOMAIN index THEN index[nik] ELSE 0

(***************************************************************************)
(* CsvSheetSource.loadRows: date parsing and the chronological sort.       *)
(***************************************************************************)
DateSeps == {"/", "-"}

\* d.match(/^(\d{2})[\/-](\d{2})[\/-](\d{4})$/) succeeds
DateMatches(d) ==
    /\ Len(d) = 10
    /\ \A i \in {1, 2, 4, 5, 7, 8, 9, 10} : d[i] \in Digits
    /\ d[3] \in DateSeps
    /\ d[6] \in DateSeps

\* the leap-year test of the Date algorithms
IsLeap(y) == (y % 4 = 0 /\ y % 100 # 0) \/ y % 400 = 0

\* DayFromYear(y): day number of 1 January of year y, relative to 1970
DayFromYear(y) ==
    365 * (y - 1970) + ((y - 1969) \div 4) - ((y - 1901) \div 100)
        + ((y - 1601) \div 400)

\* days of the year before the first day of month mn (0 = January)
DaysBeforeMonth(y, mn) ==
    LET len == <<31, IF IsLeap(y) THEN 29 ELSE 28, 31, 30, 31, 30, 31, 31, 30,
                 31, 30, 31>>
        sum[k \in 0..12] == IF k = 0 THEN 0 ELSE sum[k - 1] + len[k]
    IN  sum[mn]

\* Date.UTC(year, month, date), in days: the code's value is this number of
\* days times 86400000 ms, so its sign and order are the same.  Years 0..99
\* denote 1900..1999, and month and date overflow into the neighbours.
DateUTC(year, month, date) ==
    LET yr == IF year >= 0 /\ year <= 99 THEN 1900 + year ELSE year
        ym == yr + (month \div 12)
        mn == month % 12
    IN  DayFromYear(ym) + DaysBeforeMonth(ym, mn) + date - 1

\* parseDate(d) of loadRows
parseDate(d) ==
    IF d = <<>> THEN 0
    ELSE IF ~DateMatches(d) THEN 0
    ELSE DateUTC(ParseInt(SubSeq(d, 7, 10)), ParseInt(SubSeq(d, 4, 5)) - 1,
                 ParseInt(SubSeq(d, 1, 2)))

\* rows.sort((a, b) => parseDate(a) - parseDate(b)): Array.prototype.sort is
\* stable, so a row goes behind every row whose key is not larger
RECURSIVE SortRows(_)
SortRows(s) ==
    IF s = <<>> THEN <<>>
    ELSE LET front == SortRows(SubSeq(s, 1, Len(s) - 1))
             x == s[Len(s)]
             k == Cardinality({i \in 1..Len(front) :
                     parseDate(front[i].lastUpdatedDate)
                         - parseDate(x.lastUpdatedDate) <= 0})
         IN  SubSeq(front, 1, k) \o <<x>> \o SubSeq(front, k + 1, Len(front))

\* loadRows with a sort that puts rows of equal dates in reverse file order
loadRowsTiesReversed(data) ==
    SortRows([i \in 1..Len(data) |-> data[Len(data) + 1 - i]])

\* loadRows that rejects the rows whose date does not parse
loadRowsDropBad(data) ==
    SortRows(SelectSeq(data, LAMBDA r : DateMatches(r.lastUpdatedDate)))

\* CsvSheetSource.loadRows, from the rows array built out of the data lines
loadRows(data) == SortRows(data)

(***************************************************************************)
(* UpdateReporter                                                          *)
(***************************************************************************)
ZeroStats ==
    [totalRows |-> 0, validUpdated |-> 0, validUnchanged |-> 0,
     invalidFormat |-> 0, missingPatient |-> 0]

incTotal(st) == [st EXCEPT !.totalRows = @ + 1]
incUpdated(st) == [st EXCEPT !.validUpdated = @ + 1]
incUnchanged(st) == [st EXCEPT !.validUnchanged = @ + 1]

\* recordInvalid with the test of the reason inverted
recordInvalidSwapped(st, inv, row, reason) ==
    [invalid |-> Append(inv, [nik |-> row.nik, raw |-> row.rawPhone,
                              reason |-> reason]),
     stats |-> IF reason # "missing_patient"
               THEN [st EXCEPT !.missingPatient = @ + 1]
               ELSE [st EXCEPT !.invalidFormat = @ + 1]]

\* recordInvalid that forgets the missing-patient bucket
recordInvalidNoMissing(st, inv, row, reason) ==
    [invalid |-> Append(inv, [nik |-> row.nik, raw |-> row.rawPhone,
                              reason |-> reason]),
     stats |-> IF reason = "missing_patient" THEN st
               ELSE [st EXCEPT !.invalidFormat = @ + 1]]

\* recordInvalid(row, reason): the audit list and the counters after the call
recordInvalid(st, inv, row, reason) ==
    [invalid |-> Append(inv, [nik |-> row.nik, raw |-> row.rawPhone,
                              reason |-> reason]),
     stats |-> IF reason = "missing_patient"
               THEN [st EXCEPT !.missingPatient = @ + 1]
               ELSE [st EXCEPT !.invalidFormat = @ + 1]]

\* buildStats(): return this.stats, the reporter's own object and no copy
buildStats(st) == [ref |-> "this.stats"]

\* the object a reference leads to, given the reporter's statistics now
ObjectAt(ref, st) == CASE ref = "this.stats" -> st

(***************************************************************************)
(* UpdateService.run: the body of the loop for one row.  The result holds  *)
(* the records, the counters and the audit list after the iteration, and   *)
(* an entry naming the calls it made: the reporter method reached, the     *)
(* keys handed to findByNik, and the clock reading updateMetaData wrote    *)
(* (NoStamp when it was not called).                                       *)
(***************************************************************************)
\* the loop body with the record looked up before the phone is normalised
runStepLookupFirst(ps, index, st, inv, row, fmt, stamp) ==
    LET st1 == incTotal(st)
        norm == normalise(row.rawPhone, fmt)
        pi == findByNik(index, row.nik)
    IN  IF pi = 0
        THEN LET r == recordInvalid(st1, inv, row, "missing_patient")
             IN  [patients |-> ps, stats |-> r.stats, invalid |-> r.invalid,
                  entry |-> [row |-> row.name, call |-> "recordInvalid",
                             reason |-> "missing_patient",
                             lookups |-> <<row.nik>>, stamp |-> NoStamp]]
        ELSE IF ~norm.valid \/ norm.canonical = Null \/ norm.canonical = <<>>
        THEN LET reason == IF norm.reason = "none" THEN "invalid" ELSE norm.reason
                 r == recordInvalid(st1, inv, row, reason)
             IN  [patients |-> ps, stats |-> r.stats, invalid |-> r.invalid,
                  entry |-> [row |-> row.name, call |-> "recordInvalid",
                             reason |-> reason,
                             lookups |-> <<row.nik>>, stamp |-> NoStamp]]
        ELSE LET a == applyPhone(ps[pi], norm.canonical, stamp)
             IN  [patients |-> [ps EXCEPT ![pi] = a.patient],
                  stats |-> IF a.changed THEN incUpdated(st1)
                            ELSE incUnchanged(st1),
                  invalid |-> inv,
                  entry |-> [row |-> row.name,
                             call |-> IF a.changed THEN "incUpdated"
                                      ELSE "incUnchanged",
                             reason |-> "none",
                             lookups |-> <<row.nik>>,
                             stamp |-> IF a.changed THEN stamp ELSE NoStamp]]

\* lines 108-121 of run, for one row
runStep(ps, index, st, inv, row, fmt, stamp) ==
    LET st1 == incTotal(st)
        norm == normalise(row.rawPhone, fmt)
    IN  IF ~norm.valid \/ norm.canonical = Null \/ norm.canonical = <<>>
        THEN LET reason == IF norm.reason = "none" THEN "invalid" ELSE norm.reason
                 r == recordInvalid(st1, inv, row, reason)
             IN  [patients |-> ps, stats |-> r.stats, invalid |-> r.invalid,
                  entry |-> [row |-> row.name, call |-> "recordInvalid",
                             reason |-> reason,
                             lookups |-> <<>>, stamp |-> NoStamp]]
        ELSE
        LET pi == findByNik(index, row.nik)
        IN  IF pi = 0
            THEN LET r == recordInvalid(st1, inv, row, "missing_patient")
                 IN  [patients |-> ps, stats |-> r.stats, invalid |-> r.invalid,
                      entry |-> [row |-> row.name, call |-> "recordInvalid",
                                 reason |-> "missing_patient",
                                 lookups |-> <<row.nik>>, stamp |-> NoStamp]]
            ELSE LET a == applyPhone(ps[pi], norm.canonical, stamp)
                 IN  [patients |-> [ps EXCEPT ![pi] = a.patient],
                      stats |-> IF a.changed THEN incUpdated(st1)
                                ELSE incUnchanged(st1),
                      invalid |-> inv,
                      entry |-> [row |-> row.name,
                                 call |-> IF a.changed THEN "incUpdated"
                                          ELSE "incUnchanged",
                                 reason |-> "none",
                                 lookups |-> <<row.nik>>,
                                 stamp |-> IF a.changed THEN stamp ELSE NoStamp]]

\* lines 107-122: the loop over the rows srt; stampOf gives, per row, the
\* clock reading updateMetaData gets while that row is processed
RECURSIVE runRows(_, _, _, _, _, _, _, _)
runRows(ps, index, st, inv, lg, srt, fmt, stampOf) ==
    IF srt = <<>>
    THEN [patients |-> ps, stats |-> st, invalid |-> inv, log |-> lg]
    ELSE LET r == runStep(ps, index, st, inv, Head(srt), fmt,
                          stampOf[Head(srt).name])
         IN  runRows(r.patients, index, r.stats, r.invalid,
                     Append(lg, r.entry), Tail(srt), fmt, stampOf)

\* a whole run of a new service over the records ps and the sheet data
run(ps, data, fmt, stampOf) ==
    runRows(ps, BuildIndex(ps), ZeroStats, <<>>, <<>>, loadRows(data), fmt,
            stampOf)

(***************************************************************************)
(* Inputs of the normaliser scenario: a raw input is spelled from a        *)
(* prefix, a body and a decoration (characters inserted into the text).    *)
(***************************************************************************)
Prefixes == {<<>>, <<"+", "6", "2">>, <<"6", "2">>, <<"0">>, <<"+">>, <<"+", "+", "6", "2">>, <<"+", "0">>, <<"6">>}

\* digit bodies: the first n digits of a number starting with 8, 62 or 0
Templates == {<<"8", "1", "2", "3", "4", "5", "6", "7", "8", "9", "0", "1", "2", "3", "4", "5">>, <<"6", "2", "8", "1", "2", "3", "4", "5", "6", "7", "8", "9", "0", "1", "2", "3">>, <<"0", "8", "1", "2", "3", "4", "5", "6", "7", "8", "9", "0", "1", "2", "3", "4">>}

ExtraBodies == {<<"8", "9", "0", "1", "2", "3">>, <<"a", "b", "c", "1", "2", "3">>, <<"8", "1", "2", "+", "3", "4", "5", "6", "7", "8", "9">>}

Bodies == {SubSeq(t, 1, n) : t \in Templates, n \in 0..MaxBody} \cup ExtraBodies

\* a decoration: the characters inserted, each behind a position of the text
Insertions(dec) ==
    CASE dec = "plain" -> <<>>
      [] dec = "grouped" -> <<<<3, " ">>, <<6, "-">>, <<10, "-">>>>
      [] dec = "parens" -> <<<<0, "(">>, <<3, ")">>>>
      [] dec = "padded" -> <<<<0, " ">>, <<99, " ">>>>
      [] dec = "letter" -> <<<<5, "a">>>>
      [] dec = "innerplus" -> <<<<4, "+">>>>

\* spaces, dashes and parentheses only
BenignDecorations == {"plain", "grouped", "parens", "padded"}

Decorations == BenignDecorations \cup {"letter", "innerplus"}

RECURSIVE InsertAll(_, _)
InsertAll(s, ins) ==
    IF ins = <<>> THEN s
    ELSE LET last == ins[Len(ins)]
             k == IF last[1] > Len(s) THEN Len(s) ELSE last[1]
         IN  InsertAll(SubSeq(s, 1, k) \o <<last[2]>> \o SubSeq(s, k + 1, Len(s)),
                       SubSeq(ins, 1, Len(ins) - 1))

\* the raw input text of the normaliser scenario
RawOf(in) == InsertAll(in.pre \o in.body, Insertions(in.dec))

Pending == build(<<>>, Null, FALSE, "pending")

(***************************************************************************)
(* Inputs of the repository and run scenarios.                             *)
(***************************************************************************)
N1 == "3171044203920001"
N2 == "3578106207900002"
N0 == "0000000000000000"

\* canonical phone values handed to applyPhone
PhoneValues == {<<"+", "6", "2", "8", "1", "2", "3", "4", "5", "6", "7", "8", "9", "0">>, <<"0", "8", "1", "2", "3", "4", "5", "6", "7", "8", "9", "0">>, <<"+", "6", "2", "8", "5", "6", "7", "8", "9", "0", "1", "2", "3", "4">>}

Email == [system |-> "email", use |-> "home", value |-> <<"a">>, rank |-> NoRank]
HomePhone == [system |-> "phone", use |-> "home", value |-> <<"0", "2", "1", "5", "5", "5", "0", "1", "0", "0">>, rank |-> 1]
PlainPhone == [system |-> "phone", use |-> NoUse, value |-> <<"+", "6", "2", "8", "1", "2", "3", "4", "5", "6", "7", "8", "9", "0">>, rank |-> NoRank]
Mobile(v, r) == [system |-> "phone", use |-> "mobile", value |-> v, rank |-> r]

\* telecom lists of the records: none, empty, without and with mobile entries
TelecomLists ==
    { <<>>,
      <<Email, PlainPhone>>,
      <<HomePhone, Mobile(<<"+", "6", "2", "8", "1", "2", "3", "4", "5", "6", "7", "8", "9", "0">>, 2), Email>>,
      <<Mobile(<<"0", "8", "1", "2", "3", "4", "5", "6", "7", "8", "9", "0">>, NoRank)>>,
      <<Mobile(<<"+", "6", "2", "8", "1", "2", "3", "4", "5", "6", "7", "8", "9", "0">>, 1), Mobile(<<"+", "6", "2", "8", "5", "6", "7", "8", "9", "0", "1", "2", "3", "4">>, 2)>> }

Metas ==
    { [versionId |-> <<"v", "0", "0", "1">>, lastUpdated |-> 1],
      [versionId |-> <<"v", "0", "1", "0">>, lastUpdated |-> NoStamp],
      [versionId |-> <<"v", "9">>, lastUpdated |-> 1],
      [versionId |-> <<"v", "0", "0", "1", "0">>, lastUpdated |-> 1],
      [versionId |-> <<"d", "r", "a", "f", "t">>, lastUpdated |-> 1],
      [versionId |-> Null, lastUpdated |-> NoStamp] }

Bare(id, niks) ==
    [resourceType |-> "Patient", id |-> id,
     identifier |-> [i \in 1..Len(niks) |-> [system |-> NIK_SYSTEM, value |-> niks[i]]]]

\* every shape of record: with or without telecom, with or without meta
Shapes(id, niks) ==
    LET b == Bare(id, niks)
        withT == {b} \cup {SetTelecom(b, t) : t \in TelecomLists}
    IN  withT \cup {SetMeta(p, m) : p \in withT, m \in Metas}

\* the record store of the run scenario: a record without telecom and a
\* record that has a mobile entry among other entries
Stores ==
    { <<SetMeta(Bare("patient-001", <<N1>>),
                [versionId |-> <<"v", "0", "0", "1">>, lastUpdated |-> NoStamp]),
        SetMeta(SetTelecom(Bare("patient-002", <<N2>>),
                           <<HomePhone, Mobile(<<"+", "6", "2", "8", "1", "2", "3", "4", "5", "6", "7", "8", "9", "0">>, 2), Email>>),
                [versionId |-> <<"v", "0", "1", "0">>, lastUpdated |-> 1])>> }

RowNames == <<"r1", "r2", "r3", "r4", "r5", "r6">>

\* date texts: unparsable ones, and parsable ones around the epoch, in the
\* first century and today, with both separators
BadDates == {<<>>, <<"2", "0", "2", "5", "-", "0", "9", "-", "2", "3">>, <<"a", "b", "-", "0", "9", "-", "2", "0", "2", "5">>}
GoodDates ==
    { <<"3", "1", "-", "1", "2", "-", "0", "0", "9", "9">>, <<"0", "1", "-", "0", "1", "-", "0", "1", "0", "0">>,
      <<"3", "1", "/", "1", "2", "/", "1", "9", "6", "9">>, <<"0", "1", "-", "0", "1", "-", "1", "9", "7", "0">>,
      <<"2", "3", "-", "0", "9", "-", "2", "0", "2", "4">>, <<"2", "2", "/", "0", "9", "/", "2", "0", "2", "5">>,
      <<"2", "3", "-", "0", "9", "-", "2", "0", "2", "5">>, <<"0", "1", "-", "1", "0", "-", "2", "0", "2", "5">> }
DateTexts == BadDates \cup GoodDates

RunDates ==
    { <<>>, <<"3", "1", "-", "1", "2", "-", "0", "0", "9", "9">>, <<"3", "1", "/", "1", "2", "/", "1", "9", "6", "9">>,
      <<"2", "3", "-", "0", "9", "-", "2", "0", "2", "5">> }

\* raw phones of the sheet rows: two numbers and a rejected text
RowPhones == {<<"+", "6", "2", " ", "8", "1", "2", "-", "3", "4", "5", "6", "-", "7", "8", "9", "0">>, <<"0", "8", "5", "6", "7", "8", "9", "0", "1", "2", "3", "4">>, <<"6", "2", "a", "b", "c", "1", "2", "3">>}

\* the cells of a data row of the run scenario: every date and phone for the
\* first record, fewer for the second record and for the unknown identifier
RunCells ==
    [d : RunDates, n : {N1}, p : RowPhones]
        \cup [d : {<<>>, <<"2", "3", "-", "0", "9", "-", "2", "0", "2", "5">>}, n : {N2}, p : RowPhones]
        \cup [d : {<<"2", "3", "-", "0", "9", "-", "2", "0", "2", "5">>}, n : {N0}, p : {<<"+", "6", "2", " ", "8", "1", "2", "-", "3", "4", "5", "6", "-", "7", "8", "9", "0">>, <<"6", "2", "a", "b", "c", "1", "2", "3">>}]

\* the cells of a data row of the sheet scenario: every date text
LoadCells == [d : DateTexts, n : {N1}, p : {<<"0", "8", "1", "2", "3", "4", "5", "6", "7", "8", "9", "0">>}]

\* the sheets of at most n data rows over the given cells
Sheets(n, cells) ==
    UNION { { [i \in 1..k |->
                 [lastUpdatedDate |-> f[i].d, nik |-> f[i].n,
                  name |-> RowNames[i], rawPhone |-> f[i].p]]
              : f \in [1..k -> cells] } : k \in 0..n }

(***************************************************************************)
(* Normaliser scenario: one call of normalise on a spelled input.          *)
(***************************************************************************)
InitNorm ==
    /\ pc = "norm"
    /\ format \in Formats
    /\ nIn \in [pre : Prefixes, body : Bodies, dec : Decorations]
    /\ nResult = Pending
    /\ patients = <<>>
    /\ byNik = BuildIndex(patients)
    /\ calls = <<>>
    /\ rows = <<>>
    /\ sorted = <<>>
    /\ idx = 0
    /\ stats = ZeroStats
    /\ invalid = <<>>
    /\ outputs = <<>>
    /\ log = <<>>
    /\ initial = patients
    /\ held = <<>>

\* normalizer.normalise(rawInput)
Normalise ==
    /\ pc = "norm"
    /\ nResult' = normalise(RawOf(nIn), format)
    /\ pc' = "normalised"
    /\ UNCHANGED <<format, nIn, patients, byNik, calls, rows, sorted, idx,
                   stats, invalid, outputs, log, initial, held>>

NextNorm == Normalise

SpecNorm == InitNorm /\ [][NextNorm]_vars

(***************************************************************************)
(* Repository scenario: a sequence of applyPhone calls on one record.      *)
(***************************************************************************)
InitRepo ==
    /\ pc = "repo"
    /\ format = "e164"
    /\ nIn = [pre |-> <<>>, body |-> <<>>, dec |-> "plain"]
    /\ nResult = Pending
    /\ patients \in {<<p>> : p \in Shapes("patient-001", <<N1>>)}
    /\ byNik = BuildIndex(patients)
    /\ calls = <<>>
    /\ rows = <<>>
    /\ sorted = <<>>
    /\ idx = 0
    /\ stats = ZeroStats
    /\ invalid = <<>>
    /\ outputs = <<>>
    /\ log = <<>>
    /\ initial = patients
    /\ held = <<>>

\* repo.applyPhone(patient, phone), the clock giving the timestamp
ApplyCall ==
    /\ pc = "repo"
    /\ Len(calls) < MaxCalls
    /\ \E phone \in PhoneValues, stamp \in 1..MaxStamp :
          LET r == applyPhone(patients[1], phone, stamp)
          IN  /\ patients' = [patients EXCEPT ![1] = r.patient]
              /\ calls' = Append(calls, [phone |-> phone, changed |-> r.changed,
                                         before |-> patients[1],
                                         after |-> r.patient])
    /\ UNCHANGED <<pc, format, nIn, nResult, byNik, rows, sorted, idx, stats,
                   invalid, outputs, log, initial, held>>

NextRepo == ApplyCall

SpecRepo == InitRepo /\ [][NextRepo]_vars

(***************************************************************************)
(* UpdateService.run over a sheet and a record store.                      *)
(***************************************************************************)
InitRun ==
    /\ pc = "start"
    /\ format \in Formats
    /\ nIn = [pre |-> <<>>, body |-> <<>>, dec |-> "plain"]
    /\ nResult = Pending
    /\ patients \in Stores
    /\ byNik = BuildIndex(patients)
    /\ calls = <<>>
    /\ rows \in Sheets(MaxRunRows, RunCells)
    /\ sorted = <<>>
    /\ idx = 0
    /\ stats = ZeroStats
    /\ invalid = <<>>
    /\ outputs = <<>>
    /\ log = <<>>
    /\ initial = patients
    /\ held = <<>>

\* line 106: const rows = this.sheet.loadRows()
LoadRows ==
    /\ pc = "start"
    /\ sorted' = loadRows(rows)
    /\ pc' = "loop"
    /\ UNCHANGED <<format, nIn, nResult, patients, byNik, calls, rows, idx,
                   stats, invalid, outputs, log, initial, held>>

\* lines 107-122: one iteration of the loop, for the row sorted[idx + 1]
ProcessRow ==
    /\ pc = "loop"
    /\ idx < Len(sorted)
    /\ idx' = idx + 1
    /\ \E stamp \in 1..MaxStamp :
          LET r == runStep(patients, byNik, stats, invalid, sorted[idx + 1],
                           format, stamp)
          IN  /\ patients' = r.patients
              /\ stats' = r.stats
              /\ invalid' = r.invalid
              /\ log' = Append(log, r.entry)
    /\ UNCHANGED <<pc, format, nIn, nResult, byNik, calls, rows, sorted, outputs,
                   initial, held>>

\* writeOutputs called from inside the loop, whatever rows remain
WriteOutputsEarly ==
    /\ pc = "loop"
    /\ outputs' = Append(outputs, [patients |-> patients, stats |-> stats,
                                   invalid |-> invalid])
    /\ pc' = "done"
    /\ UNCHANGED <<format, nIn, nResult, patients, byNik, calls, rows, sorted,
                   idx, stats, invalid, log, initial, held>>

\* line 123: this.reporter.writeOutputs(this.repo.allPatients())
WriteOutputs ==
    /\ pc = "loop"
    /\ idx = Len(sorted)
    /\ outputs' = Append(outputs, [patients |-> patients, stats |-> stats,
                                   invalid |-> invalid])
    /\ pc' = "done"
    /\ UNCHANGED <<format, nIn, nResult, patients, byNik, calls, rows, sorted,
                   idx, stats, invalid, log, initial, held>>

Next == LoadRows \/ ProcessRow \/ WriteOutputs

Spec == InitRun /\ [][Next]_vars

(***************************************************************************)
(* Two runs of the same sheet: the second run is a new service with a new  *)
(* reporter over a repository built from the records the first run left.   *)
(***************************************************************************)
MaxRuns == 2       \* runs of the same sheet in the two-run scenario

\* cells of the sheets that are run twice: two dates and two phone values
\* for one record, a row of the other record and a row with a bad phone
TwiceCells ==
    [d : {<<"2", "3", "-", "0", "9", "-", "2", "0", "2", "4">>,
          <<"2", "3", "-", "0", "9", "-", "2", "0", "2", "5">>},
     n : {N1},
     p : {<<"+", "6", "2", " ", "8", "1", "2", "-", "3", "4", "5", "6", "-", "7", "8", "9", "0">>,
          <<"0", "8", "5", "6", "7", "8", "9", "0", "1", "2", "3", "4">>}]
    \cup
    [d : {<<"2", "3", "-", "0", "9", "-", "2", "0", "2", "5">>},
     n : {N2},
     p : {<<"0", "8", "5", "6", "7", "8", "9", "0", "1", "2", "3", "4">>}]
    \cup
    [d : {<<"2", "3", "-", "0", "9", "-", "2", "0", "2", "5">>},
     n : {N1},
     p : {<<"6", "2", "a", "b", "c", "1", "2", "3">>}]

InitTwice ==
    /\ pc = "start"
    /\ format = "e164"
    /\ nIn = [pre |-> <<>>, body |-> <<>>, dec |-> "plain"]
    /\ nResult = Pending
    /\ patients \in Stores
    /\ byNik = BuildIndex(patients)
    /\ calls = <<>>
    /\ rows \in Sheets(MaxRunRows, TwiceCells)
    /\ sorted = <<>>
    /\ idx = 0
    /\ stats = ZeroStats
    /\ invalid = <<>>
    /\ outputs = <<>>
    /\ log = <<>>
    /\ initial = patients
    /\ held = <<>>

\* index.ts main, lines 109-114, run again over the records the previous
\* run left: new repository, new reporter, new service
Restart ==
    /\ pc = "done"
    /\ Len(outputs) < MaxRuns
    /\ pc' = "start"
    /\ byNik' = BuildIndex(patients)
    /\ initial' = patients
    /\ sorted' = <<>>
    /\ idx' = 0
    /\ stats' = ZeroStats
    /\ invalid' = <<>>
    /\ log' = <<>>
    /\ UNCHANGED <<format, nIn, nResult, patients, calls, rows, outputs, held>>

NextTwice == LoadRows \/ ProcessRow \/ WriteOutputs \/ Restart

SpecTwice == InitTwice /\ [][NextTwice]_vars

(***************************************************************************)
(* Runs over stores whose records carry one identifier each, share an      *)
(* identifier, or carry two identifiers.                                   *)
(***************************************************************************)
IsoRecord1(niks) ==
    SetMeta(Bare("patient-001", niks),
            [versionId |-> <<"v", "0", "0", "1">>, lastUpdated |-> NoStamp])

IsoRecord2(niks) ==
    SetMeta(SetTelecom(Bare("patient-002", niks),
                       <<HomePhone, Mobile(<<"+", "6", "2", "8", "1", "2", "3", "4", "5", "6", "7", "8", "9", "0">>, 2)>>),
            [versionId |-> <<"v", "0", "1", "0">>, lastUpdated |-> 1])

IsoStores ==
    { <<IsoRecord1(<<N1>>), IsoRecord2(<<N2>>)>>,
      <<IsoRecord1(<<N1>>), IsoRecord2(<<N1>>)>>,
      <<IsoRecord1(<<N1, N2>>)>>,
      <<IsoRecord2(<<N1, N2>>), IsoRecord1(<<N2>>)>> }

IsoCells ==
    [d : {<<"2", "3", "-", "0", "9", "-", "2", "0", "2", "4">>,
          <<"2", "3", "-", "0", "9", "-", "2", "0", "2", "5">>},
     n : {N1, N2},
     p : {<<"+", "6", "2", " ", "8", "1", "2", "-", "3", "4", "5", "6", "-", "7", "8", "9", "0">>,
          <<"0", "8", "5", "6", "7", "8", "9", "0", "1", "2", "3", "4">>}]

InitIso ==
    /\ pc = "start"
    /\ format = "e164"
    /\ nIn = [pre |-> <<>>, body |-> <<>>, dec |-> "plain"]
    /\ nResult = Pending
    /\ patients \in IsoStores
    /\ byNik = BuildIndex(patients)
    /\ calls = <<>>
    /\ rows \in Sheets(MaxRunRows, IsoCells)
    /\ sorted = <<>>
    /\ idx = 0
    /\ stats = ZeroStats
    /\ invalid = <<>>
    /\ outputs = <<>>
    /\ log = <<>>
    /\ initial = patients
    /\ held = <<>>

SpecIso == InitIso /\ [][Next]_vars

(***************************************************************************)
(* Reporter scenario: the methods of one UpdateReporter called in any      *)
(* order, with one call of buildStats among them.                          *)
(***************************************************************************)
MaxReports == 4    \* calls of the counting methods in the reporter scenario

\* rows handed to recordInvalid
ReportRows ==
    {[lastUpdatedDate |-> <<>>, nik |-> N1, name |-> "r1",
      rawPhone |-> <<"6", "2", "a", "b", "c", "1", "2", "3">>]}

InitReporter ==
    /\ pc = "reporter"
    /\ format = "e164"
    /\ nIn = [pre |-> <<>>, body |-> <<>>, dec |-> "plain"]
    /\ nResult = Pending
    /\ patients = <<>>
    /\ byNik = BuildIndex(patients)
    /\ calls = <<>>
    /\ rows = <<>>
    /\ sorted = <<>>
    /\ idx = 0
    /\ stats = ZeroStats
    /\ invalid = <<>>
    /\ outputs = <<>>
    /\ log = <<>>
    /\ initial = patients
    /\ held = <<>>

\* the counting methods called so far: each call raises one counter by one
Reports ==
    stats.totalRows + stats.validUpdated + stats.validUnchanged
        + stats.invalidFormat + stats.missingPatient

IncTotal ==
    /\ pc = "reporter"
    /\ Reports < MaxReports
    /\ stats' = incTotal(stats)
    /\ UNCHANGED <<pc, format, nIn, nResult, patients, byNik, calls, rows, sorted,
                   idx, invalid, outputs, log, initial, held>>

IncUpdated ==
    /\ pc = "reporter"
    /\ Reports < MaxReports
    /\ stats' = incUpdated(stats)
    /\ UNCHANGED <<pc, format, nIn, nResult, patients, byNik, calls, rows, sorted,
                   idx, invalid, outputs, log, initial, held>>

IncUnchanged ==
    /\ pc = "reporter"
    /\ Reports < MaxReports
    /\ stats' = incUnchanged(stats)
    /\ UNCHANGED <<pc, format, nIn, nResult, patients, byNik, calls, rows, sorted,
                   idx, invalid, outputs, log, initial, held>>

RecordInvalid ==
    /\ pc = "reporter"
    /\ Reports < MaxReports
    /\ \E row \in ReportRows, reason \in {"length", "missing_patient"} :
          LET r == recordInvalid(stats, invalid, row, reason)
          IN  /\ stats' = r.stats
              /\ invalid' = r.invalid
    /\ UNCHANGED <<pc, format, nIn, nResult, patients, byNik, calls, rows, sorted,
                   idx, outputs, log, initial, held>>

\* const s = reporter.buildStats(): the caller keeps what was returned
BuildStats ==
    /\ pc = "reporter"
    /\ held = <<>>
    /\ held' = Append(held, [ref |-> buildStats(stats).ref,
                              seen |-> ObjectAt(buildStats(stats).ref, stats)])
    /\ UNCHANGED <<pc, format, nIn, nResult, patients, byNik, calls, rows, sorted,
                   idx, stats, invalid, outputs, log, initial>>

NextReporter ==
    IncTotal \/ IncUpdated \/ IncUnchanged \/ RecordInvalid \/ BuildStats

SpecReporter == InitReporter /\ [][NextReporter]_vars

(***************************************************************************)
(* Sheet scenario: loadRows alone, over every date text.                   *)
(***************************************************************************)
InitLoad ==
    /\ pc = "start"
    /\ format = "e164"
    /\ nIn = [pre |-> <<>>, body |-> <<>>, dec |-> "plain"]
    /\ nResult = Pending
    /\ patients = <<>>
    /\ byNik = BuildIndex(patients)
    /\ calls = <<>>
    /\ rows \in Sheets(MaxRows, LoadCells)
    /\ sorted = <<>>
    /\ idx = 0
    /\ stats = ZeroStats
    /\ invalid = <<>>
    /\ outputs = <<>>
    /\ log = <<>>
    /\ initial = patients
    /\ held = <<>>

NextLoad == LoadRows

SpecLoad == InitLoad /\ [][NextLoad]_vars

(***************************************************************************)
(* Properties.                                                             *)
(***************************************************************************)
OutcomeCounters == {"validUpdated", "validUnchanged", "invalidFormat", "missingPatient"}

Outcomes(st) ==
    st.validUpdated + st.validUnchanged + st.invalidFormat + st.missingPatient

\* one row was processed in this step and counted once in total and once in
\* exactly one outcome counter
RowCountedOnce ==
    idx' = idx + 1 =>
        /\ stats'.totalRows = stats.totalRows + 1
        /\ \A c \in OutcomeCounters : stats'[c] \in {stats[c], stats[c] + 1}
        /\ Cardinality({c \in OutcomeCounters : stats'[c] = stats[c] + 1}) = 1

\* C1: after every row and at the end of run, totalRows is the sum of the
\* four outcome counters, and every row adds one to totalRows and one to
\* exactly one outcome counter.
C1_SumInvariant ==
    /\ [](stats.totalRows = Outcomes(stats))
    /\ [][RowCountedOnce]_vars

\* C1 witness: a finished run that counted an update and a missing patient
C1_Witness ==
    /\ pc = "done"
    /\ stats.totalRows = 2
    /\ stats.validUpdated = 1
    /\ stats.missingPatient = 1

\* C2: a call of applyPhone with the value of the call just before it
\* returns false and leaves the whole record (telecom, meta.versionId,
\* meta.lastUpdated) as it was.
C2_Idempotent ==
    \A i \in 2..Len(calls) :
        calls[i].phone = calls[i - 1].phone =>
            /\ ~calls[i].changed
            /\ calls[i].after = calls[i].before

\* C2 witness: a changing call followed by a call with the same value
C2_Witness ==
    \E i \in 2..Len(calls) :
        /\ calls[i].phone = calls[i - 1].phone
        /\ calls[i - 1].changed
        /\ "meta" \in DOMAIN calls[i].before

\* the calendar date a well-shaped date text denotes, as year-month-day
CalKey(d) ==
    ParseInt(SubSeq(d, 7, 10)) * 10000 + ParseInt(SubSeq(d, 4, 5)) * 100
        + ParseInt(SubSeq(d, 1, 2))

\* the value of the first phone/mobile entry of a record, Null if none
MobileValue(p) ==
    IF HasTelecom(p) /\ FindMobile(p.telecom) # 0
    THEN p.telecom[FindMobile(p.telecom)].value
    ELSE Null

\* the file positions of the rows carrying identifier n
RowsOf(n) == {i \in 1..Len(rows) : rows[i].nik = n}

\* the row of I with the latest calendar date
Latest(I) == CHOOSE i \in I : \A j \in I :
                 CalKey(rows[j].lastUpdatedDate) <= CalKey(rows[i].lastUpdatedDate)

\* C3: for rows sharing the identifier of an existing record and carrying
\* pairwise distinct valid dates, the record's mobile value after the run is
\* the canonical value of the row with the latest date, whatever the order
\* of the rows in the input.
C3_LatestDateWins ==
    pc = "done" =>
        \A n \in DOMAIN byNik :
            LET I == RowsOf(n)
            IN  ( /\ I # {}
                  /\ \A i \in I : DateMatches(rows[i].lastUpdatedDate)
                  /\ \A i, j \in I : i # j =>
                        CalKey(rows[i].lastUpdatedDate) # CalKey(rows[j].lastUpdatedDate)
                  /\ normalise(rows[Latest(I)].rawPhone, format).valid )
                => MobileValue(patients[byNik[n]])
                       = normalise(rows[Latest(I)].rawPhone, format).canonical

\* C4: in the sequence loadRows returns, every row whose date fails to parse
\* stands before every row whose date parses.
C4_UnparsableFirst ==
    pc = "loop" =>
        \A i, j \in 1..Len(sorted) :
            ( /\ ~DateMatches(sorted[i].lastUpdatedDate)
              /\ DateMatches(sorted[j].lastUpdatedDate) ) => i < j

\* the number of occurrences of x in s
Count(s, x) == Cardinality({i \in 1..Len(s) : s[i] = x})

\* C5: the sequence the loop processes is a permutation of the data rows,
\* and totalRows at the end of run is the number of data rows.
C5_NoRowLost ==
    /\ pc # "start" =>
          /\ Len(sorted) = Len(rows)
          /\ \A i \in 1..Len(rows) : Count(sorted, rows[i]) = Count(rows, rows[i])
    /\ pc = "done" => stats.totalRows = Len(rows)

\* C5 witness: a finished run over two rows, one with an unparsable date,
\* which the sort moved
C5_Witness ==
    /\ pc = "done"
    /\ Len(rows) = 2
    /\ ~DateMatches(rows[2].lastUpdatedDate)
    /\ DateMatches(rows[1].lastUpdatedDate)
    /\ sorted # rows
    /\ stats.totalRows = 2

\* C6: the rows with a well-shaped date come out of loadRows in ascending
\* order of the calendar date (year, month, day) their text denotes.
C6_AscendingCalendar ==
    pc = "loop" =>
        \A i, j \in 1..Len(sorted) :
            ( /\ i < j
              /\ DateMatches(sorted[i].lastUpdatedDate)
              /\ DateMatches(sorted[j].lastUpdatedDate) )
            => CalKey(sorted[i].lastUpdatedDate) <= CalKey(sorted[j].lastUpdatedDate)

\* an optional leading + followed by lo..hi digits and nothing else
PlusDigits(s, lo, hi) ==
    LET ds == IF StartsWith(s, <<"+">>) THEN Slice(s, 1) ELSE s
    IN  AllDigits(ds) /\ Len(ds) >= lo /\ Len(ds) <= hi

\* C7 as stated: in both formats a valid result's canonical value is an
\* optional + followed by 10 to 15 digits.
C7_TenToFifteenDigits ==
    (pc = "normalised" /\ nResult.valid) => PlusDigits(nResult.canonical, 10, 15)

\* C7 amended: a valid result's canonical value is, in e164 format, a + and
\* 10 to 15 digits beginning with 62, and in local0 format 9 to 14 digits
\* beginning with 0 and no +.
C7_CanonicalShape ==
    (pc = "normalised" /\ nResult.valid) =>
        IF format = "e164"
        THEN /\ StartsWith(nResult.canonical, <<"+", "6", "2">>)
             /\ PlusDigits(nResult.canonical, 10, 15)
        ELSE /\ StartsWith(nResult.canonical, <<"0">>)
             /\ AllDigits(nResult.canonical)
             /\ Len(nResult.canonical) >= 9
             /\ Len(nResult.canonical) <= 14

\* C7 witness: a valid national value of nine digits
C7_Witness ==
    /\ pc = "normalised"
    /\ nResult.valid
    /\ format = "local0"
    /\ Len(nResult.canonical) = 9

\* the spellings of a subscriber number: +62, 62, 0 or nothing before it
SpellingPrefixes == {<<"+", "6", "2">>, <<"6", "2">>, <<"0">>, <<>>}

\* the input is an accepted spelling of a subscriber number of 9-13 digits
IsSpelling ==
    /\ nIn.pre \in SpellingPrefixes
    /\ AllDigits(nIn.body)
    /\ Len(nIn.body) >= 9
    /\ Len(nIn.body) <= 13
    /\ nIn.dec \in BenignDecorations

\* the canonical value of subscriber number d
CanonicalOf(d, fmt) ==
    IF fmt = "e164" THEN <<"+", "6", "2">> \o d ELSE <<"0">> \o d

\* C8 as stated: every accepted spelling of subscriber number d normalises
\* to +62 d in e164 format and to 0 d in local0 format.
C8_AllSpellingsAgree ==
    (pc = "normalised" /\ IsSpelling) =>
        /\ nResult.valid
        /\ nResult.canonical = CanonicalOf(nIn.body, format)

\* C8 amended: the same, except for the bare spelling of a number d that
\* itself begins with 0 or 62, which is read as carrying that prefix.
C8_SpellingsAgree ==
    ( /\ pc = "normalised"
      /\ IsSpelling
      /\ ~( /\ nIn.pre = <<>>
            /\ \/ StartsWith(nIn.body, <<"0">>)
               \/ StartsWith(nIn.body, <<"6", "2">>) ) )
    =>  /\ nResult.valid
        /\ nResult.canonical = CanonicalOf(nIn.body, format)

\* C8 witness: the trunk-0 spelling with dashes, in national format
C8_Witness ==
    /\ pc = "normalised"
    /\ IsSpelling
    /\ nIn.pre = <<"0">>
    /\ nIn.dec = "grouped"
    /\ format = "local0"
    /\ nResult.canonical = <<"0">> \o nIn.body

\* C9: "890123" is rejected with reason length and "62abc123" with reason
\* non_digit, in both formats.
C9_RejectionReasons ==
    pc = "normalised" =>
        /\ RawOf(nIn) = <<"8", "9", "0", "1", "2", "3">> =>
              (~nResult.valid /\ nResult.reason = "length")
        /\ RawOf(nIn) = <<"6", "2", "a", "b", "c", "1", "2", "3">> =>
              (~nResult.valid /\ nResult.reason = "non_digit")

\* the number of phone/mobile entries of a record
MobileCount(p) ==
    IF HasTelecom(p)
    THEN Cardinality({i \in 1..Len(p.telecom) : IsMobile(p.telecom[i])})
    ELSE 0

\* the record before the first applyPhone call
InitialRecord == IF calls = <<>> THEN patients[1] ELSE calls[1].before

\* C10: a record that starts with at most one phone/mobile entry has at most
\* one after any sequence of applyPhone calls.
C10_SingleMobile ==
    MobileCount(InitialRecord) <= 1 => MobileCount(patients[1]) <= 1

\* C10 witness: a record without a mobile entry after two changing calls
C10_Witness ==
    /\ Len(calls) >= 2
    /\ MobileCount(InitialRecord) = 0
    /\ calls[1].changed
    /\ calls[2].changed
    /\ MobileCount(patients[1]) = 1

\* the telecom list of a record, empty when the record has none
TelecomOf(p) == IF HasTelecom(p) THEN p.telecom ELSE <<>>

\* every entry other than phone/mobile sits at the same position with the
\* same fields in both lists, and neither list has one the other lacks
OtherChannelsSame(tb, ta) ==
    /\ \A i \in 1..Len(tb) : ~IsMobile(tb[i]) => (i <= Len(ta) /\ ta[i] = tb[i])
    /\ \A i \in 1..Len(ta) : ~IsMobile(ta[i]) => (i <= Len(tb) /\ tb[i] = ta[i])

\* C11: after any sequence of applyPhone calls every telecom entry whose
\* (system, use) is not (phone, mobile) has the value, rank and position it
\* had before the first call; none is added and none is removed.
C11_OtherChannelsKept ==
    OtherChannelsSame(TelecomOf(InitialRecord), TelecomOf(patients[1]))

\* C11 witness: a record with an email and a phone without use, after a call
\* that pushed a mobile entry and a call that rewrote it
C11_Witness ==
    /\ Len(calls) >= 2
    /\ calls[1].changed
    /\ calls[2].changed
    /\ TelecomOf(InitialRecord) = <<Email, PlainPhone>>
    /\ Len(TelecomOf(patients[1])) = 3
    /\ IsMobile(patients[1].telecom[3])

\* meta.versionId of a record, Null when the record has no meta
VersionOf(p) == IF HasMeta(p) THEN p.meta.versionId ELSE Null

\* the first phone/mobile entry of a record, <<>> when it has none
MobileEntry(p) ==
    IF FindMobile(TelecomOf(p)) = 0 THEN <<>>
    ELSE <<TelecomOf(p)[FindMobile(TelecomOf(p))]>>

\* the calls so far that changed meta.versionId
VersionBumps ==
    {i \in 1..Len(calls) : VersionOf(calls[i].after) # VersionOf(calls[i].before)}

\* the calls so far that returned true, which the run counts as updated
UpdatedCalls == {i \in 1..Len(calls) : calls[i].changed}

\* C12: a call to applyPhone changes meta.versionId exactly when it returns
\* true, and it returns true exactly when it changes or creates the
\* phone/mobile entry; so the number of version bumps of a record equals
\* the number of calls counted as updated for it.
C12_BumpIffChanged ==
    /\ \A i \in 1..Len(calls) :
          /\ (VersionOf(calls[i].after) # VersionOf(calls[i].before))
                <=> calls[i].changed
          /\ calls[i].changed
                <=> (MobileEntry(calls[i].after) # MobileEntry(calls[i].before))
          /\ ~calls[i].changed => calls[i].after = calls[i].before
    /\ Cardinality(VersionBumps) = Cardinality(UpdatedCalls)

\* C12 witness: three calls on a record, two of them changing it
C12_Witness ==
    /\ Len(calls) = 3
    /\ calls[1].changed
    /\ ~calls[2].changed
    /\ calls[3].changed
    /\ Cardinality(VersionBumps) = 2

\* the tag has the form v<digits>
IsNumberedTag(vid) == vid # Null /\ StartsWith(vid, <<"v">>) /\ AllDigits(Slice(vid, 1))

\* C13: when a record is changed, a version tag v<digits> becomes v followed
\* by the suffix plus one, zero-padded to the width of the original suffix
\* (v010 to v011, v1 to v2, v0010 to v0011); any other existing tag is kept
\* and gets a marker appended.
C13_PadToOriginalWidth ==
    \A i \in 1..Len(calls) :
        LET vid == VersionOf(calls[i].before)
            new == VersionOf(calls[i].after)
        IN  calls[i].changed =>
              IF IsNumberedTag(vid)
              THEN new = <<"v">> \o PadStart(NumToString(ParseInt(Slice(vid, 1)) + 1),
                                         Len(vid) - 1)
              ELSE vid # Null => (StartsWith(new, vid) /\ Len(new) > Len(vid))

\* the normaliser of the run accepts the phone of the row (line 110)
PhoneAccepted(row) ==
    LET norm == normalise(row.rawPhone, format)
    IN  norm.valid /\ norm.canonical # Null /\ norm.canonical # <<>>

\* the loop processes, in this step, a row whose phone is rejected
RejectedRowStep == idx' = idx + 1 /\ ~PhoneAccepted(sorted[idx + 1])

\* C14: a row whose phone is rejected is counted as invalidFormat and never
\* as missingPatient, also when its identifier matches no record; it causes
\* no lookup in the store and leaves every record unchanged.
C14_RejectedRowIsolated ==
    [][RejectedRowStep =>
          /\ stats'.invalidFormat = stats.invalidFormat + 1
          /\ stats'.missingPatient = stats.missingPatient
          /\ log'[idx + 1].lookups = <<>>
          /\ patients' = patients]_vars

\* C14 witness: a row with a rejected phone and an identifier of no record
\* has been processed
C14_Witness ==
    \E i \in 1..Len(log) :
        /\ sorted[i].nik = N0
        /\ findByNik(byNik, sorted[i].nik) = 0
        /\ ~PhoneAccepted(sorted[i])
        /\ log[i].call = "recordInvalid"
        /\ stats.invalidFormat >= 1

\* the rows of the sheet with an accepted phone and an identifier of no record
MissingRows ==
    {i \in 1..Len(rows) : PhoneAccepted(rows[i]) /\ findByNik(byNik, rows[i].nik) = 0}

\* the rows of the sheet whose phone the normaliser rejects
RejectedRows == {i \in 1..Len(rows) : ~PhoneAccepted(rows[i])}

\* C15: at the end of a run missingPatient is the number of rows with a valid
\* phone whose identifier matches no record and invalidFormat is the number
\* of rows whose phone was rejected; each row handed to recordInvalid is in
\* exactly one of the two buckets.
C15_BucketCounts ==
    pc = "done" =>
        /\ stats.missingPatient = Cardinality(MissingRows)
        /\ stats.invalidFormat = Cardinality(RejectedRows)
        /\ Len(invalid) = stats.missingPatient + stats.invalidFormat

\* C15 witness: a finished run with a row in each bucket
C15_Witness ==
    /\ pc = "done"
    /\ Cardinality(MissingRows) = 1
    /\ Cardinality(RejectedRows) = 1
    /\ Len(invalid) = 2

\* writeOutputs has been called at most once, and only by a run that has
\* processed every row; it was handed every record in its final state
WrittenAtEnd ==
    /\ Len(outputs) <= 1
    /\ (Len(outputs) = 1) <=> (pc = "done")
    /\ pc = "done" =>
          /\ idx = Len(rows)
          /\ Len(log) = Len(rows)
          /\ Len(outputs[1].patients) = Len(initial)
          /\ outputs[1].patients = patients

\* C16: in every run writeOutputs is called exactly once, only after the
\* last row has been fully processed (also when the sheet has no rows), and
\* it receives the full record set in its final state.  A run that has not
\* called it yet is before the loop or inside it with rows left to process
\* or none, so its next step is a row of the finite sheet or the call itself.
C16_WrittenOnceAtEnd ==
    /\ WrittenAtEnd
    /\ pc # "done" => (pc = "start" \/ (pc = "loop" /\ idx <= Len(sorted)))
    /\ pc = "loop" => Len(sorted) = Len(rows)

\* C16 witness: a finished run over two rows, the second of which changed a
\* record, with the changed record in the output
C16_Witness ==
    /\ pc = "done"
    /\ Len(rows) = 2
    /\ log[2].call = "incUpdated"
    /\ outputs[1].patients = patients
    /\ patients # initial

\* the canonical value the run's normaliser gives the phone of a row
CanonicalOfRow(row) == normalise(row.rawPhone, format).canonical

\* all valid rows addressed to the same record carry the same canonical value
OneValuePerRecord ==
    \A i, j \in 1..Len(rows) :
        (/\ PhoneAccepted(rows[i])
         /\ PhoneAccepted(rows[j])
         /\ findByNik(byNik, rows[i].nik) # 0
         /\ findByNik(byNik, rows[i].nik) = findByNik(byNik, rows[j].nik))
        => CanonicalOfRow(rows[i]) = CanonicalOfRow(rows[j])

\* the second run of the sheet has finished
SecondRunDone == pc = "done" /\ Len(outputs) = 2

\* C17 as claimed: a second run of the same sheet over the records the first
\* run left changes no record and counts no updated row, for every sheet.
C17_SecondRunChangesNothing ==
    SecondRunDone =>
        /\ outputs[2].patients = outputs[1].patients
        /\ outputs[2].stats.validUpdated = 0

\* C17: a second run of the same sheet over the records the first run left
\* leaves the telecom list of every record as the first run left it; when
\* all valid rows addressed to a record carry the same canonical value, it
\* changes no record at all and counts no updated row.
C17_SecondRunKeepsChannels ==
    SecondRunDone =>
        /\ \A i \in 1..Len(patients) :
              TelecomOf(outputs[2].patients[i]) = TelecomOf(outputs[1].patients[i])
        /\ OneValuePerRecord =>
              /\ outputs[2].patients = outputs[1].patients
              /\ outputs[2].stats.validUpdated = 0

\* C17 witness: the second run of a sheet with two valid rows of one value
\* for a record that the first run changed
C17_Witness ==
    /\ SecondRunDone
    /\ Len(rows) = 2
    /\ rows[1].nik = N1 /\ rows[2].nik = N1
    /\ PhoneAccepted(rows[1]) /\ PhoneAccepted(rows[2])
    /\ OneValuePerRecord
    /\ outputs[1].stats.validUpdated = 1
    /\ outputs[2].stats.validUnchanged = 2

\* the rows of the sheet that carry the identifier n, in file order
RowsWith(n) ==
    LET Same(r) == r.nik = n
    IN  SelectSeq(rows, Same)

\* the clock readings of the finished run, per row (1 where none was taken)
LoggedStamps ==
    [nm \in {RowNames[i] : i \in 1..Len(RowNames)} |->
        IF \E i \in 1..Len(log) : log[i].row = nm /\ log[i].stamp # NoStamp
        THEN (CHOOSE e \in {log[i] : i \in 1..Len(log)} : e.row = nm).stamp
        ELSE 1]

\* a run of a new service over the initial records and only the rows of n
Alone(n) == run(initial, RowsWith(n), format, LoggedStamps)

\* the finished run and the run over the rows of n alone agree on the
\* outcome of every row of n and on the final state of the record n leads to
SameAsAlone(n) ==
    /\ \A i \in 1..Len(log) :
          sorted[i].nik = n =>
              \E j \in 1..Len(Alone(n).log) :
                  /\ Alone(n).log[j].row = log[i].row
                  /\ Alone(n).log[j].call = log[i].call
                  /\ Alone(n).log[j].reason = log[i].reason
    /\ findByNik(byNik, n) # 0 =>
          Alone(n).patients[findByNik(byNik, n)] = patients[findByNik(byNik, n)]

\* every record of the store carries at most one national identifier
OneNikPerRecord ==
    \A i \in 1..Len(initial) : Cardinality(NiksOf(initial[i])) <= 1

\* C18 as claimed: for every store, also with records that carry several
\* identifiers or share one, the outcome of each row and the final state of
\* each record are those of a run over the rows of the same identifier alone.
C18_OtherRowsIrrelevant ==
    pc = "done" => \A n \in {rows[i].nik : i \in 1..Len(rows)} : SameAsAlone(n)

\* C18: in a store whose records carry at most one identifier each (records
\* may share one), the outcome of each row and the final state of each record
\* are those of a run over the rows of the same identifier alone, in the
\* same relative order and with the same clock readings.
C18_OtherRowsIrrelevantOneNik ==
    (pc = "done" /\ OneNikPerRecord) =>
        \A n \in {rows[i].nik : i \in 1..Len(rows)} : SameAsAlone(n)

\* C18 witness: a finished run over two rows of different identifiers, each
\* changing a record, in a store whose records carry one identifier each
C18_Witness ==
    /\ pc = "done"
    /\ OneNikPerRecord
    /\ Len(rows) = 2
    /\ rows[1].nik # rows[2].nik
    /\ log[1].call = "incUpdated"
    /\ log[2].call = "incUpdated"

\* two results agree in everything but the echoed raw text
SameClass(a, b) ==
    a.valid = b.valid /\ a.canonical = b.canonical /\ a.reason = b.reason

\* the text has a + somewhere behind a digit
HasInnerPlus(s) ==
    \E i, j \in 1..Len(s) : i < j /\ s[i] \in Digits /\ s[j] = "+"

\* the text the claim says is classified: digits only, behind one + when the
\* stripped text starts with one
ClaimedClean(s) ==
    IF StartsWith(StripNonDigit(s), <<"+">>)
    THEN <<"+">> \o SelectSeq(s, IsDigit)
    ELSE SelectSeq(s, IsDigit)

\* C19 as claimed: normalise classifies an input as it classifies the text
\* left after removing every character that is not a digit or a leading +,
\* a + behind the leading position included ("0812+3456789" as
\* "08123456789").
C19_InnerPlusRemoved ==
    (pc = "normalised" /\ ClaimedClean(RawOf(nIn)) # <<>>) =>
        SameClass(nResult, normalise(ClaimedClean(RawOf(nIn)), format))

\* C19: normalise classifies an input as it classifies the text left after
\* removing every character that is not a digit or a + and collapsing
\* several leading + into one; a + behind a digit is kept, and such an input
\* is rejected with the reason non_digit.
C19_InnerPlusKept ==
    pc = "normalised" =>
        /\ Clean(Trim(RawOf(nIn))) # <<>> =>
              SameClass(nResult, normalise(Clean(Trim(RawOf(nIn))), format))
        /\ HasInnerPlus(RawOf(nIn)) =>
              (~nResult.valid /\ nResult.reason = "non_digit")

\* C19 witness: "0812+3456789" has been normalised and rejected
C19_Witness ==
    /\ pc = "normalised"
    /\ RawOf(nIn) = <<"0", "8", "1", "2", "+", "3", "4", "5", "6", "7", "8", "9">>
    /\ ~nResult.valid
    /\ nResult.reason = "non_digit"

\* the characters the cleaning rules name: digits, whitespace, dashes,
\* parentheses and +
NamedChars == Digits \cup {" ", "-", "(", ")", "+"}

\* the text has a character that is none of those, such as a letter
HasForeignChar(s) == \E i \in 1..Len(s) : s[i] \notin NamedChars

\* C20: an input that contains a character other than digits, whitespace,
\* dashes, parentheses and + (a letter anywhere in it) is marked invalid.
C20_ForeignCharRejected ==
    (pc = "normalised" /\ HasForeignChar(RawOf(nIn))) => ~nResult.valid

\* the position in the sorted array of the row at file position i
SortedPos(i) == CHOOSE k \in 1..Len(sorted) : sorted[k].name = rows[i].name

\* the file positions of the rows of identifier n whose phone is accepted
ValidRowsOf(n) == {i \in RowsOf(n) : PhoneAccepted(rows[i])}

\* the row of I with the greatest parsed date, the last in the file among
\* the rows that share it
LastOfLatest(I) ==
    CHOOSE i \in I : \A j \in I :
        \/ parseDate(rows[j].lastUpdatedDate) < parseDate(rows[i].lastUpdatedDate)
        \/ /\ parseDate(rows[j].lastUpdatedDate) = parseDate(rows[i].lastUpdatedDate)
           /\ j <= i

\* C21: rows of the same identifier with equal parsed dates (several
\* unparsable dates included) keep their input order in the sorted array, so
\* the final mobile value of an existing record is the canonical value of
\* the valid row that stands last in the input among those with the latest
\* parsed date.
C21_TiesKeepInputOrder ==
    /\ (pc = "loop" /\ idx = 0) =>
          \A i, j \in 1..Len(rows) :
              (/\ i < j
               /\ rows[i].nik = rows[j].nik
               /\ parseDate(rows[i].lastUpdatedDate)
                     = parseDate(rows[j].lastUpdatedDate))
              => SortedPos(i) < SortedPos(j)
    /\ pc = "done" =>
          \A n \in DOMAIN byNik :
              ValidRowsOf(n) # {} =>
                  MobileValue(patients[byNik[n]])
                      = CanonicalOfRow(rows[LastOfLatest(ValidRowsOf(n))])

\* C21 witness: a finished run over two rows of one record, both with an
\* unparsable date and with different valid phones; the second one stands
\* in the record
C21_Witness ==
    /\ pc = "done"
    /\ Len(rows) = 2
    /\ rows[1].nik = N1 /\ rows[2].nik = N1
    /\ ~DateMatches(rows[1].lastUpdatedDate)
    /\ ~DateMatches(rows[2].lastUpdatedDate)
    /\ PhoneAccepted(rows[1]) /\ PhoneAccepted(rows[2])
    /\ CanonicalOfRow(rows[1]) # CanonicalOfRow(rows[2])
    /\ MobileValue(patients[byNik[N1]]) = CanonicalOfRow(rows[2])

\* C22: the counters of a statistics object obtained from buildStats are
\* those it showed when it was returned, whatever incTotal, incUpdated,
\* incUnchanged or recordInvalid calls follow.
C22_StatsSnapshot ==
    \A k \in 1..Len(held) : ObjectAt(held[k].ref, stats) = held[k].seen

\* the call rewrote the first phone/mobile entry of the list where it stood
\* and touched nothing else of the list
OverwrittenInPlace(tb, ta, v) ==
    /\ Len(ta) = Len(tb)
    /\ \A k \in 1..Len(tb) :
          IF k = FindMobile(tb)
          THEN ta[k] = [tb[k] EXCEPT !.value = v, !.rank = 1]
          ELSE ta[k] = tb[k]

\* the call appended the new mobile entry behind the entries of the list
AppendedAtEnd(tb, ta, v) ==
    ta = Append(tb, [system |-> "phone", use |-> "mobile", value |-> v,
                     rank |-> 1])

\* C23: after applyPhone(record, v), whatever it returns, the first
\* phone/mobile entry of the record has value v; when it returns true that
\* entry has rank 1 and was overwritten in place if the record had one, or
\* appended as {phone, mobile, v, 1} if it had none, also when the record
\* had no telecom list.
C23_MobileIsValue ==
    \A i \in 1..Len(calls) :
        LET tb == TelecomOf(calls[i].before)
            ta == TelecomOf(calls[i].after)
            v == calls[i].phone
        IN  /\ MobileValue(calls[i].after) = v
            /\ calls[i].changed =>
                  /\ HasTelecom(calls[i].after)
                  /\ ta[FindMobile(ta)].rank = 1
                  /\ IF FindMobile(tb) # 0
                     THEN OverwrittenInPlace(tb, ta, v)
                     ELSE AppendedAtEnd(tb, ta, v)

\* C23 witness: a record without telecom list gets its mobile entry appended
\* by the first call and overwritten by the second
C23_Witness ==
    /\ Len(calls) >= 2
    /\ ~HasTelecom(calls[1].before)
    /\ calls[1].changed
    /\ calls[2].changed
    /\ calls[2].phone # calls[1].phone
    /\ TelecomOf(calls[2].after) = <<Mobile(calls[2].phone, 1)>>

\* the text consists of digits only (the empty text included)
NoNonDigit(s) == \A i \in 1..Len(s) : s[i] \in Digits

\* the cleaned text of the input of the normaliser scenario
Cleaned == Clean(Trim(RawOf(nIn)))

\* the number of digits behind the + of the intermediate +62 form of a
\* cleaned text that starts with +62, 62 or 0
IntermediateDigits(c) ==
    IF StartsWith(c, <<"+", "6", "2">>) THEN Len(c) - 1
    ELSE IF StartsWith(c, <<"6", "2">>) THEN Len(c)
    ELSE Len(c) + 1

\* the cleaned text starts with +62, 62 or 0 and is otherwise all digits
PrefixedDigits(c) ==
    \/ StartsWith(c, <<"+", "6", "2">>) /\ NoNonDigit(Slice(c, 3))
    \/ StartsWith(c, <<"6", "2">>) /\ NoNonDigit(Slice(c, 2))
    \/ StartsWith(c, <<"0">>) /\ NoNonDigit(Slice(c, 1))

\* the cleaned text is all digits and starts with neither 62 nor 0
BareDigits(c) ==
    AllDigits(c) /\ ~StartsWith(c, <<"6", "2">>) /\ ~StartsWith(c, <<"0">>)

\* the result is valid exactly when n lies in lo..hi, and is otherwise
\* rejected with the reason length
ValidIffWithin(n, lo, hi) ==
    /\ nResult.valid <=> (lo <= n /\ n <= hi)
    /\ ~nResult.valid => nResult.reason = "length"

\* C24 as claimed: a cleaned input that starts with +62, 62 or 0 and is
\* otherwise all digits is valid exactly when its +62 form has 10 to 15
\* digits behind the +, and is otherwise rejected with reason length; an
\* all-digit input without such a prefix is valid exactly when it has 9 to
\* 13 digits, else rejected with reason length.
C24_LengthWindow ==
    pc = "normalised" =>
        /\ PrefixedDigits(Cleaned) =>
              ValidIffWithin(IntermediateDigits(Cleaned), MIN_LEN, MAX_LEN)
        /\ BareDigits(Cleaned) => ValidIffWithin(Len(Cleaned), 9, 13)

\* C24: the same, for a cleaned input that starts with +62, or with 62 or 0
\* followed by at least one digit; the cleaned inputs "62" and "0" are
\* rejected with the reason non_digit.
C24_LengthWindowNonEmptyRest ==
    pc = "normalised" =>
        /\ (PrefixedDigits(Cleaned) /\ Cleaned \notin {<<"6", "2">>, <<"0">>}) =>
              ValidIffWithin(IntermediateDigits(Cleaned), MIN_LEN, MAX_LEN)
        /\ Cleaned \in {<<"6", "2">>, <<"0">>} =>
              (~nResult.valid /\ nResult.reason = "non_digit")
        /\ BareDigits(Cleaned) => ValidIffWithin(Len(Cleaned), 9, 13)

\* C24 witness: +62 followed by 13 digits, the longest valid input, has been
\* normalised
C24_Witness ==
    /\ pc = "normalised"
    /\ StartsWith(Cleaned, <<"+", "6", "2">>)
    /\ PrefixedDigits(Cleaned)
    /\ IntermediateDigits(Cleaned) = MAX_LEN
    /\ nResult.valid

\* C25: for every input, valid or invalid, the raw field of the result of
\* normalise is the input text, character for character, leading and
\* trailing whitespace included.
C25_RawPreserved ==
    pc = "normalised" => nResult.raw = RawOf(nIn)

\* the rejection reasons of the normaliser
RejectionReasons == {"empty", "non_digit", "length", "bad_prefix"}

\* C26: every result of normalise is well-formed: valid holds exactly when
\* canonical is not null, exactly when the reason is absent; an invalid
\* result carries one of the reasons empty, non_digit, length, bad_prefix,
\* so neither "invalid" nor "missing_patient" comes from the normaliser.
C26_WellFormed ==
    pc = "normalised" =>
        /\ nResult.valid <=> nResult.canonical # Null
        /\ nResult.valid <=> nResult.reason = "none"
        /\ nResult.valid => nResult.canonical # <<>>
        /\ ~nResult.valid => nResult.reason \in RejectionReasons
        /\ nResult.reason \notin {"invalid", "missing_patient"}

\* C26 witness: a valid result in national format, with its canonical value
\* and without a reason
C26_Witness ==
    /\ pc = "normalised"
    /\ format = "local0"
    /\ nResult.valid
    /\ nResult.canonical # Null
    /\ nResult.reason = "none"

\* C27: the defensive prefix check is dead: for no input and no format does
\* normalise return the reason bad_prefix, because every branch that sets
\* the intermediate canonical value makes it start with +62.
C27_BadPrefixDead ==
    pc = "normalised" =>
        /\ nResult.reason # "bad_prefix"
        /\ Step1(Cleaned).ok => StartsWith(Step1(Cleaned).canonical, <<"+", "6", "2">>)

\* C27 witness: an input without prefix has passed the prefix check
C27_Witness ==
    /\ pc = "normalised"
    /\ BareDigits(Cleaned)
    /\ Step1(Cleaned).ok
    /\ nResult.valid

\* a record whose only telecom entry is the mobile phone c
Holding(c) == SetTelecom(Bare("patient-001", <<N1>>), <<Mobile(c, 1)>>)

\* C28: normalise is idempotent on its own output: when it is valid with
\* canonical value c then, under the same format, normalise(c) is valid with
\* canonical value c, in e164 and in local0; so for a record that holds c a
\* row carrying c is classified as unchanged.
C28_IdempotentOnOutput ==
    (pc = "normalised" /\ nResult.valid) =>
        /\ normalise(nResult.canonical, format).valid
        /\ normalise(nResult.canonical, format).canonical = nResult.canonical
        /\ ~applyPhone(Holding(nResult.canonical),
                       normalise(nResult.canonical, format).canonical, 1).changed

\* C28 witness: a valid result in national format whose canonical value
\* differs from the input and normalises to itself
C28_Witness ==
    /\ pc = "normalised"
    /\ format = "local0"
    /\ nResult.valid
    /\ nResult.canonical # nResult.raw
    /\ normalise(nResult.canonical, format).canonical = nResult.canonical

====
